---- MODULE Spec2Model ----
(***************************************************************************)
(* A model of dockerscan's image engine, dockerscan/actions/image/         *)
(* docker_api.py: opening a saved image archive, walking the layer-parent  *)
(* chain, extracting layers with whiteouts, rewriting the manifest and     *)
(* assembling a new archive around a replaced layer.                       *)
(*                                                                         *)
(* Strings are TLA+ strings; the Python string operations the code uses    *)
(* (in, startswith, replace, split, os.path.basename, os.path.join) are    *)
(* computed character by character.  A tar archive is the sequence of its  *)
(* members; a Python dict is a function whose DOMAIN is the dict's keys.   *)
(***************************************************************************)
EXTENDS Integers, Sequences, FiniteSets, TLC

VARIABLES
    op,                 \* the public function being run
    pc,                 \* its position
    err,                \* the exception that ended it, "none" while there is none
    img,                \* the members of the archive at image_path
    image_path,         \* argument: path of the saved image
    image_repository,   \* argument: repository prefix
    path_exists,        \* os.path.exists(image_path)
    top_layers,         \* open_docker_image: the resolved topmost layer id
    manifest,           \* open_docker_image: the parsed manifest object
    cur,                \* _find_layers: the id of the innermost generator frame
    layers,             \* _find_layers: the ids yielded so far
    extract_path,       \* argument: destination directory
    fs,                 \* the file system, keyed by path relative to the cwd
    todo,               \* extract_docker_image: reversed(layers) not yet extracted
    extracted,          \* layer ids extract_docker_layer was invoked with, in order
    old_layer_digest,   \* argument: identifier of the replaced layer
    new_layer_digest,   \* argument: digest of the new layer
    new_manifest,       \* build_manifest_with_new_layer: the returned object
    out,                \* create_new_docker_image: members written to the output
    idx,                \* create_new_docker_image: members of img processed
    ret                 \* get_last_image_layer: the value returned

vars == <<op, pc, err, img, image_path, image_repository, path_exists, top_layers,
          manifest, cur, layers, extract_path, fs, todo, extracted,
          old_layer_digest, new_layer_digest, new_manifest, out, idx, ret>>

-----------------------------------------------------------------------------
(* Python string operations *)

\* s[i:j] of Python for 0-based i, j (characters i+1..j)
Slice(s, i, j) == IF j <= i THEN "" ELSE SubSeq(s, i + 1, j)

\* sub in s
Contains(s, sub) ==
    \E i \in 0..(Len(s) - Len(sub)) : Slice(s, i, i + Len(sub)) = sub

\* s.startswith(p)
StartsWith(s, p) == Len(s) >= Len(p) /\ Slice(s, 0, Len(p)) = p

\* s.find(sub): the 0-based index of the first occurrence, -1 when there is none
Find(s, sub) ==
    IF Contains(s, sub)
    THEN CHOOSE i \in 0..(Len(s) - Len(sub)) :
            /\ Slice(s, i, i + Len(sub)) = sub
            /\ \A j \in 0..(i - 1) : Slice(s, j, j + Len(sub)) # sub
    ELSE -1

\* s.rfind(sub)
RFind(s, sub) ==
    IF Contains(s, sub)
    THEN CHOOSE i \in 0..(Len(s) - Len(sub)) :
            /\ Slice(s, i, i + Len(sub)) = sub
            /\ \A j \in (i + 1)..(Len(s) - Len(sub)) : Slice(s, j, j + Len(sub)) # sub
    ELSE -1

\* s.replace(old, new) for a non-empty old: every occurrence, left to right
RECURSIVE Replace(_, _, _)
Replace(s, old, new) ==
    LET i == Find(s, old)
    IN  IF i < 0 THEN s
        ELSE Slice(s, 0, i) \o new \o Replace(Slice(s, i + Len(old), Len(s)), old, new)

\* os.path.basename(p)
Basename(p) == Slice(p, RFind(p, "/") + 1, Len(p))

\* os.path.dirname(p) for a relative path
Dirname(p) == IF RFind(p, "/") < 0 THEN "" ELSE Slice(p, 0, RFind(p, "/"))

\* x.split("/")[0]
SplitHead(x) == IF Find(x, "/") < 0 THEN x ELSE Slice(x, 0, Find(x, "/"))

NoErr == "none"

-----------------------------------------------------------------------------
(* The archive: tarfile.TarFile *)

\* a member: name, type ("file" or "dir"), meta (the header fields other than
\* name and size: "src" as stored in the archive read, "new" for a fresh
\* TarInfo, "stat" as tarfile.add takes them from the file on disk) and data
File(name, data) == [name |-> name, type |-> "file", meta |-> "src", data |-> data]
Dir(name)        == [name |-> name, type |-> "dir", meta |-> "src", data |-> [kind |-> "none"]]

\* TarFile.getmember(name): the last member of that name, 0 when there is none
GetMember(a, name) ==
    IF \E i \in 1..Len(a) : a[i].name = name
    THEN CHOOSE i \in 1..Len(a) :
            a[i].name = name /\ \A j \in (i + 1)..Len(a) : a[j].name # name
    ELSE 0

HasMember(a, name) == GetMember(a, name) # 0

-----------------------------------------------------------------------------
(* open_docker_image *)

\* image, tag from the base name of the path
ImageAndTag(path) ==
    LET tmp_image == Basename(path)
        c == Find(tmp_image, ":")
    IN  IF c >= 0
        THEN [image |-> Slice(tmp_image, 0, c), tag |-> Slice(tmp_image, c + 1, Len(tmp_image))]
        ELSE [image |-> tmp_image, tag |-> "latest"]

\* repos_info[name][tag] raises KeyError
Indexed(repos_info, name, tag) ==
    name \in DOMAIN repos_info /\ tag \in DOMAIN repos_info[name]

\* the arguments of format() swapped
ImageAndRepoSwapped(repository, image) == image \o "/" \o repository

\* "{}/{}".format(image_repository, image)
ImageAndRepo(repository, image) == repository \o "/" \o image

\* the value yielded, or the exception raised, by open_docker_image
OpenDockerImage(a, path, repository) ==
    LET it == ImageAndTag(path)
        m  == GetMember(a, "manifest.json")
        r  == GetMember(a, "repositories")
    IN  IF m = 0 \/ r = 0
        THEN [err |-> "KeyError", top_layers |-> "", manifest |-> <<>>]
        ELSE IF a[m].data.kind # "manifest" \/ a[r].data.kind # "repositories"
        THEN [err |-> "ValueError", top_layers |-> "", manifest |-> <<>>]
        ELSE LET repos_info == a[r].data.index
                 image_and_repo == ImageAndRepo(repository, it.image)
             IN  IF Indexed(repos_info, it.image, it.tag)
                 THEN [err |-> NoErr, top_layers |-> repos_info[it.image][it.tag],
                       manifest |-> a[m].data.doc]
                 ELSE IF Indexed(repos_info, image_and_repo, it.tag)
                 THEN [err |-> NoErr, top_layers |-> repos_info[image_and_repo][it.tag],
                       manifest |-> a[m].data.doc]
                 ELSE [err |-> "Exception", top_layers |-> "", manifest |-> <<>>]

-----------------------------------------------------------------------------
(* _find_layers *)

\* a frame that yields its id and never recurses into the parent
FindLayersFrameNoParent(a, id) ==
    IF GetMember(a, id \o "/json") = 0
    THEN [err |-> "KeyError", has_parent |-> FALSE, pid |-> ""]
    ELSE [err |-> NoErr, has_parent |-> FALSE, pid |-> ""]

\* one generator frame of _find_layers(img, id): the exception raised while the
\* layer's json is read, or the id yielded and the parent the frame recurses into
FindLayersFrame(a, id) ==
    LET m == GetMember(a, id \o "/json")
    IN  IF m = 0
        THEN [err |-> "KeyError", has_parent |-> FALSE, pid |-> ""]
        ELSE IF a[m].type = "dir"
        THEN [err |-> "AttributeError", has_parent |-> FALSE, pid |-> ""]
        ELSE IF a[m].data.kind # "json"
        THEN [err |-> "ValueError", has_parent |-> FALSE, pid |-> ""]
        ELSE LET info == a[m].data.doc
             IN  IF "parent" \in DOMAIN info
                 THEN [err |-> NoErr, has_parent |-> TRUE, pid |-> info["parent"]]
                 ELSE [err |-> NoErr, has_parent |-> FALSE, pid |-> ""]

\* the chain as yielded, reversed() left out
NotReversed(s) == s

\* reversed(layers)
Reversed(s) == [i \in 1..Len(s) |-> s[Len(s) + 1 - i]]

-----------------------------------------------------------------------------
(* The file system, and tarfile extraction (extract_docker_layer) *)

FsFile(c) == [kind |-> "file", content |-> c]
FsDir     == [kind |-> "dir", content |-> ""]

\* os.path.join(base, path) for a relative path
Join(base, path) == base \o "/" \o path

\* the key of a relative path: "./x" and "x" are one file
FsKey(p) == IF StartsWith(p, "./") THEN Slice(p, 2, Len(p)) ELSE IF p = "." THEN "" ELSE p

\* some proper ancestor directory of p exists and is a regular file
RECURSIVE AncestorIsFile(_, _)
AncestorIsFile(f, p) ==
    LET d == Dirname(p)
    IN  IF d = "" THEN FALSE
        ELSE (d \in DOMAIN f /\ f[d].kind = "file") \/ AncestorIsFile(f, d)

\* os.makedirs(p) where no ancestor is a regular file
RECURSIVE MakeDirs(_, _)
MakeDirs(f, p) ==
    IF p = "" \/ p \in DOMAIN f THEN f
    ELSE LET g == MakeDirs(f, Dirname(p))
         IN  [q \in DOMAIN g \cup {p} |-> IF q = p THEN FsDir ELSE g[q]]

\* TarFile.extract of one member below base, errorlevel=0: an OSError is logged
\* and the member is skipped
ExtractMember(f, base, m) ==
    LET target == FsKey(Join(base, m.path))
    IN  IF AncestorIsFile(f, target) THEN f
        ELSE LET g == MakeDirs(f, Dirname(target))
             IN  IF m.kind = "dir"
                 THEN IF target \in DOMAIN g THEN g
                      ELSE [q \in DOMAIN g \cup {target} |-> IF q = target THEN FsDir ELSE g[q]]
                 ELSE IF target \in DOMAIN g /\ g[target].kind = "dir" THEN g
                      ELSE [q \in DOMAIN g \cup {target} |->
                               IF q = target THEN FsFile(m.content) ELSE g[q]]

\* layer.extractall(path=extract_path): the members in archive order
RECURSIVE ExtractAll(_, _, _, _)
ExtractAll(f, base, members, i) ==
    IF i > Len(members) THEN f
    ELSE ExtractAll(ExtractMember(f, base, members[i]), base, members, i + 1)

\* os.unlink(p), p relative to the current working directory
Unlink(f, p) ==
    LET k == FsKey(p)
    IN  IF AncestorIsFile(f, k) THEN [fs |-> f, errno |-> "ENOTDIR"]
        ELSE IF k \notin DOMAIN f THEN [fs |-> f, errno |-> "ENOENT"]
        ELSE IF f[k].kind = "dir" THEN [fs |-> f, errno |-> "EISDIR"]
        ELSE [fs |-> [q \in DOMAIN f \ {k} |-> f[q]], errno |-> "OK"]

OSErrorOf(errno) ==
    IF errno = "EISDIR" THEN "IsADirectoryError"
    ELSE IF errno = "ENOTDIR" THEN "NotADirectoryError"
    ELSE "FileNotFoundError"

IsWhiteout(path) == StartsWith(path, ".wh.") \/ Contains(path, "/.wh.")

\* the path a whiteout marker deletes
NewPath(path) ==
    IF StartsWith(path, ".wh.") THEN Slice(path, 4, Len(path))
    ELSE Replace(path, "/.wh.", "/")

\* the body of the whiteout loop for one marker: both unlinks inside one try,
\* ENOENT swallowed, any other OSError raised
RemoveWhiteout(f, path) ==
    LET r1 == Unlink(f, path)
    IN  IF r1.errno = "ENOENT" THEN [fs |-> f, err |-> NoErr]
        ELSE IF r1.errno # "OK" THEN [fs |-> f, err |-> OSErrorOf(r1.errno)]
        ELSE LET r2 == Unlink(r1.fs, NewPath(path))
             IN  IF r2.errno \in {"OK", "ENOENT"} THEN [fs |-> r2.fs, err |-> NoErr]
                 ELSE [fs |-> r2.fs, err |-> OSErrorOf(r2.errno)]

\* for member in layer.getmembers(): ...
RECURSIVE ProcessWhiteouts(_, _, _)
ProcessWhiteouts(f, members, i) ==
    IF i > Len(members) THEN [fs |-> f, err |-> NoErr]
    ELSE IF ~IsWhiteout(members[i].path) THEN ProcessWhiteouts(f, members, i + 1)
    ELSE LET r == RemoveWhiteout(f, members[i].path)
         IN  IF r.err # NoErr THEN r ELSE ProcessWhiteouts(r.fs, members, i + 1)

\* extract_docker_layer(img, layer_id, extract_path): the file system it leaves
\* and the exception it raises
ExtractDockerLayer(a, layer_id, path, f) ==
    LET m == GetMember(a, layer_id \o "/layer.tar")
    IN  IF m = 0 THEN [fs |-> f, err |-> "KeyError"]
        ELSE IF a[m].data.kind # "tar" THEN [fs |-> f, err |-> "ReadError"]
        ELSE ProcessWhiteouts(ExtractAll(f, path, a[m].data.members, 1),
                              a[m].data.members, 1)

-----------------------------------------------------------------------------
(* The manifest *)

\* manifest[0]["Layers"] raises IndexError or KeyError
ManifestLookupError(m) ==
    IF Len(m) = 0 THEN "IndexError"
    ELSE IF "Layers" \notin DOMAIN m[1] THEN "KeyError"
    ELSE NoErr

\* get_layers_ids_from_manifest
GetLayersIdsFromManifest(m) ==
    IF ManifestLookupError(m) # NoErr
    THEN [err |-> "DockerscanError", ids |-> <<>>]
    ELSE [err |-> NoErr,
          ids |-> [i \in 1..Len(m[1]["Layers"]) |-> SplitHead(m[1]["Layers"][i])]]

\* get_last_image_layer: get_layers_ids_from_manifest(manifest)[-1]
GetLastImageLayer(m) ==
    LET r == GetLayersIdsFromManifest(m)
    IN  IF r.err # NoErr THEN [err |-> r.err, id |-> ""]
        ELSE IF Len(r.ids) = 0 THEN [err |-> "IndexError", id |-> ""]
        ELSE [err |-> NoErr, id |-> r.ids[Len(r.ids)]]

\* "{}/layer.tar".format(new_layer_digest)
LayerTar(digest) == digest \o "/layer.tar"

\* the index enumerate() stops at: the first entry the old digest occurs in
FirstMatch(entries, old) ==
    IF \E i \in 1..Len(entries) : Contains(entries[i], old)
    THEN CHOOSE i \in 1..Len(entries) :
            Contains(entries[i], old) /\ \A j \in 1..(i - 1) : ~Contains(entries[j], old)
    ELSE 0

\* the loop without its break: every entry the old digest occurs in is replaced
BuildManifestNoBreak(m, old, new) ==
    IF ManifestLookupError(m) # NoErr
    THEN [err |-> ManifestLookupError(m), manifest |-> m]
    ELSE [err |-> NoErr,
          manifest |-> [m EXCEPT ![1]["Layers"] =
                           [i \in 1..Len(m[1]["Layers"]) |->
                               IF Contains(m[1]["Layers"][i], old) THEN LayerTar(new)
                               ELSE m[1]["Layers"][i]]]]

\* build_manifest_with_new_layer: the object returned.  old_manifest.copy() copies
\* the list, not the dict in it, so the caller's manifest is this object too.
BuildManifestWithNewLayer(m, old, new) ==
    IF ManifestLookupError(m) # NoErr
    THEN [err |-> ManifestLookupError(m), manifest |-> m]
    ELSE LET i == FirstMatch(m[1]["Layers"], old)
         IN  IF i = 0 THEN [err |-> NoErr, manifest |-> m]
             ELSE [err |-> NoErr,
                   manifest |-> [m EXCEPT ![1]["Layers"][i] = LayerTar(new)]]

-----------------------------------------------------------------------------
(* create_new_docker_image *)

\* the archive at new_layer_path
NewLayerData ==
    [kind |-> "tar", members |-> <<[path |-> "f", kind |-> "file", content |-> "new"]>>]

\* c.decode().replace(old_layer_digest, new_layer_digest).encode() on a file's bytes
ReplaceInData(data, old, new) ==
    IF data.kind = "json"
    THEN [data EXCEPT !.doc = [k \in DOMAIN data.doc |-> Replace(data.doc[k], old, new)]]
    ELSE IF data.kind = "raw"
    THEN [data EXCEPT !.text = Replace(data.text, old, new)]
    ELSE data

\* the first diff id patched, not the last
PatchConfigFirst(doc, new) ==
    [doc EXCEPT !["rootfs"]["diff_ids"][1] = "sha256:" \o new]

\* j["rootfs"]["diff_ids"][-1] = "sha256:{}".format(new_layer_digest)
PatchConfig(doc, new) ==
    [doc EXCEPT !["rootfs"]["diff_ids"][Len(doc["rootfs"]["diff_ids"])] = "sha256:" \o new]

\* the elif chain of the loop body, as the number of the rule applied to a member
RuleOf(f, old) ==
    IF f.name = "manifest.json" THEN 1
    ELSE IF Contains(f.name, old) THEN 2
    ELSE IF Contains(f.name, ".json") /\ ~Contains(f.name, "/") THEN 3
    ELSE 4

\* the member copied under a fresh TarInfo, as the other rules build theirs
CopyMemberFreshInfo(f) == <<[f EXCEPT !.meta = "new"]>>

\* rule 4: s.addfile(f, img.extractfile(f))
CopyMember(f) == <<f>>

\* rule 2: the members the loop body adds for a member whose name holds the old digest
ReplaceLayerMember(f, old, new) ==
    IF Contains(f.name, "layer") THEN [err |-> NoErr, add |-> <<>>]
    ELSE IF f.name = old
    THEN [err |-> NoErr,
          add |-> <<[name |-> LayerTar(new), type |-> "file", meta |-> "stat",
                     data |-> NewLayerData]>>]
    ELSE IF f.type = "dir" THEN [err |-> "AttributeError", add |-> <<>>]
    ELSE [err |-> NoErr,
          add |-> <<[name |-> new \o "/" \o Basename(f.name), type |-> "file",
                     meta |-> "new",
                     data |-> IF Contains(f.name, "json")
                              THEN ReplaceInData(f.data, old, new)
                              ELSE f.data]>>]

\* one iteration of the loop over img.getmembers(): the members added to the
\* output archive, or the exception raised
AssembleMember(f, m, old, new) ==
    IF RuleOf(f, old) = 1
    THEN [err |-> NoErr,
          add |-> <<[name |-> "manifest.json", type |-> "file", meta |-> "new",
                     data |-> [kind |-> "manifest", doc |-> m]]>>]
    ELSE IF RuleOf(f, old) = 2 THEN ReplaceLayerMember(f, old, new)
    ELSE IF RuleOf(f, old) = 3
    THEN IF f.type = "dir" THEN [err |-> "AttributeError", add |-> <<>>]
         ELSE IF f.data.kind # "config" THEN [err |-> "KeyError", add |-> <<>>]
         ELSE IF Len(f.data.doc["rootfs"]["diff_ids"]) = 0
         THEN [err |-> "IndexError", add |-> <<>>]
         ELSE [err |-> NoErr,
               add |-> <<[name |-> f.name, type |-> "file", meta |-> "new",
                          data |-> [kind |-> "config", doc |-> PatchConfig(f.data.doc, new)]]>>]
    ELSE [err |-> NoErr, add |-> CopyMember(f)]

-----------------------------------------------------------------------------
(* The images the operations are run on *)

\* the largest number of layers of an image
MaxLayers == 3

\* layer identifiers: hexadecimal digests of one length
IdPool == <<"a1", "b2", "c3", "d4", "e5">>
LayerIds == {IdPool[i] : i \in 1..MaxLayers}
\* an identifier no layer of the archive has
AbsentId == "99"
\* the image config, <image id>.json
ConfigName == "ee.json"
NewDigests == {"f6"}

TarOf(members) == [kind |-> "tar", members |-> members]
RegM(path, c) == [path |-> path, kind |-> "file", content |-> c]
DirM(path)    == [path |-> path, kind |-> "dir", content |-> ""]

JsonOf(id, parent) ==
    IF parent = "" THEN [kind |-> "json", doc |-> [id |-> id]]
    ELSE [kind |-> "json", doc |-> [id |-> id, parent |-> parent]]
RawOf(text) == [kind |-> "raw", text |-> text]

\* the members of one layer directory, in the order docker save writes them
LayerMembers(id, has_dir, has_version, json, tar) ==
    (IF has_dir THEN <<Dir(id)>> ELSE <<>>)
    \o (IF has_version THEN <<File(id \o "/VERSION", RawOf("1.0"))>> ELSE <<>>)
    \o (IF json.kind = "none" THEN <<>> ELSE <<File(id \o "/json", json)>>)
    \o <<File(id \o "/layer.tar", tar)>>

ManifestDoc(ids) ==
    <<[Config |-> ConfigName, Layers |-> [i \in 1..Len(ids) |-> LayerTar(ids[i])]]>>
ConfigDoc(ids) ==
    [rootfs |-> [type |-> "layers", diff_ids |-> [i \in 1..Len(ids) |-> "sha256:9" \o ids[i]]]]

\* manifest.json, the image config and the repositories index
IndexMembers(ids, repos_info) ==
    <<File(ConfigName, [kind |-> "config", doc |-> ConfigDoc(ids)]),
      File("manifest.json", [kind |-> "manifest", doc |-> ManifestDoc(ids)]),
      File("repositories", [kind |-> "repositories", index |-> repos_info])>>

RECURSIVE Concat(_, _)
Concat(parts, i) == IF i > Len(parts) THEN <<>> ELSE parts[i] \o Concat(parts, i + 1)

\* a linear image of n layers, oldest first: IdPool[1] is the base layer
ChainIds(n) == [i \in 1..n |-> IdPool[i]]
ParentOf(i) == IF i = 1 THEN "" ELSE IdPool[i - 1]

Idle ==
    /\ err = NoErr
    /\ top_layers = ""
    /\ manifest = <<>>
    /\ cur = ""
    /\ layers = <<>>
    /\ todo = <<>>
    /\ extracted = <<>>
    /\ new_manifest = <<>>
    /\ out = <<>>
    /\ idx = 0
    /\ ret = ""

-----------------------------------------------------------------------------
(* open_docker_image on its own *)

PathsR == {"nginx", "nginx:latest", "nginx:1.0", "imgs/nginx:1.0", "a:b/nginx", "nginx:1.0:x"}
NamesR == {"nginx", "myrepo/nginx", "/nginx"}
TagMaps ==
    UNION {[T -> {"a1", "b2"}] : T \in SUBSET {"latest", "1.0"}}
ReposR == UNION {[N -> TagMaps] : N \in SUBSET NamesR}

InitResolve ==
    /\ op = "open_docker_image"
    /\ pc = "open"
    /\ image_path \in PathsR
    /\ image_repository \in {"", "myrepo"}
    /\ path_exists = TRUE
    /\ \E r \in ReposR : img = IndexMembers(<<"a1">>, r)
    /\ extract_path = "."
    /\ fs = <<>>
    /\ old_layer_digest = ""
    /\ new_layer_digest = ""
    /\ Idle

\* with open_docker_image(image_path, image_repository) as (img, top, _, manifest)
Open ==
    /\ pc = "open"
    /\ LET r == OpenDockerImage(img, image_path, image_repository)
       IN  IF r.err # NoErr
           THEN /\ pc' = "failed"
                /\ err' = r.err
                /\ UNCHANGED <<top_layers, manifest, cur>>
           ELSE /\ top_layers' = r.top_layers
                /\ manifest' = r.manifest
                /\ err' = err
                /\ IF op = "extract_docker_image"
                   THEN pc' = "walk" /\ cur' = r.top_layers
                   ELSE IF op = "rebuild"
                   THEN pc' = "manifest" /\ cur' = cur
                   ELSE pc' = "done" /\ cur' = cur
    /\ UNCHANGED <<op, img, image_path, image_repository, path_exists, layers,
                   extract_path, fs, todo, extracted, old_layer_digest,
                   new_layer_digest, new_manifest, out, idx, ret>>

NextResolve == Open
SpecResolve == InitResolve /\ [][NextResolve]_vars

-----------------------------------------------------------------------------
(* _find_layers on its own: list(_find_layers(img, id)) *)

\* what the archive holds as layer i's json: nothing, bytes that are no JSON, or
\* metadata whose parent is an older layer (p in 1..i-1), absent (p = 0) or an
\* identifier the archive has no layer for (p = -1)
MetaChoices(i) ==
    {[st |-> "missing", p |-> 0], [st |-> "raw", p |-> 0]}
    \cup {[st |-> "ok", p |-> q] : q \in -1..(i - 1)}

MetaData(i, c) ==
    IF c.st = "missing" THEN [kind |-> "none"]
    ELSE IF c.st = "raw" THEN RawOf("not json")
    ELSE JsonOf(IdPool[i], IF c.p = 0 THEN "" ELSE IF c.p < 0 THEN AbsentId ELSE IdPool[c.p])

WalkImage(n, choice) ==
    Concat([i \in 1..n |->
               LayerMembers(IdPool[i], TRUE, TRUE, MetaData(i, choice[i]),
                            TarOf(<<RegM("f", IdPool[i])>>))], 1)
    \o IndexMembers(ChainIds(n), "app" :> ("latest" :> IdPool[n]))

InitWalk ==
    /\ op = "_find_layers"
    /\ pc = "walk"
    /\ image_path = "app:latest"
    /\ image_repository = ""
    /\ path_exists = TRUE
    /\ \E n \in 1..MaxLayers :
          /\ \E choice \in [1..n -> UNION {MetaChoices(i) : i \in 1..n}] :
                /\ \A i \in 1..n : choice[i] \in MetaChoices(i)
                /\ img = WalkImage(n, choice)
          /\ \E start \in {IdPool[i] : i \in 1..n} \cup {AbsentId} :
                /\ err = NoErr
                /\ top_layers = start
                /\ cur = start
    /\ manifest = <<>>
    /\ layers = <<>>
    /\ todo = <<>>
    /\ extracted = <<>>
    /\ new_manifest = <<>>
    /\ out = <<>>
    /\ idx = 0
    /\ ret = ""
    /\ extract_path = "."
    /\ fs = <<>>
    /\ old_layer_digest = ""
    /\ new_layer_digest = ""

\* the consumer takes the next value of the generator: the innermost frame reads
\* its layer's json, yields its id and recurses into the parent, or returns
FindLayers ==
    /\ pc = "walk"
    /\ LET r == FindLayersFrame(img, cur)
       IN  IF r.err # NoErr
           THEN /\ pc' = "failed"
                /\ err' = r.err
                /\ UNCHANGED <<cur, layers>>
           ELSE /\ layers' = Append(layers, cur)
                /\ err' = err
                /\ IF r.has_parent
                   THEN pc' = "walk" /\ cur' = r.pid
                   ELSE /\ cur' = cur
                        /\ pc' = IF op = "extract_docker_image" THEN "makedirs" ELSE "done"
    /\ UNCHANGED <<op, img, image_path, image_repository, path_exists, top_layers,
                   manifest, extract_path, fs, todo, extracted, old_layer_digest,
                   new_layer_digest, new_manifest, out, idx, ret>>

NextWalk == FindLayers
\* list() drives the generator until it is exhausted or raises
SpecWalk == InitWalk /\ [][NextWalk]_vars /\ WF_vars(NextWalk)

-----------------------------------------------------------------------------
(* extract_docker_image *)

\* the inner archives a layer may hold
LayerKinds ==
    << <<RegM("f", "a")>>,
       <<RegM("f", "b"), DirM("d")>>,
       <<RegM(".wh.f", "")>>,
       <<RegM(".wh.d", "")>>,
       <<DirM("s"), RegM("s/g", "a")>>,
       <<RegM("s/.wh.g", "")>> >>

\* what the current working directory holds before the call
CwdContents ==
    { <<>>, (".wh.f" :> FsFile("")) @@ ("f" :> FsFile("mine")) }

ExtractImage(n, kind, missing, repos_info) ==
    Concat([i \in 1..n |->
               LayerMembers(IdPool[i], TRUE, TRUE,
                            IF i = missing THEN [kind |-> "none"]
                            ELSE JsonOf(IdPool[i], ParentOf(i)),
                            TarOf(LayerKinds[kind[i]]))], 1)
    \o IndexMembers(ChainIds(n), repos_info)

InitExtract ==
    /\ op = "extract_docker_image"
    /\ pc = "start"
    /\ image_path = "imgs/app:latest"
    /\ image_repository = "myrepo"
    /\ \E n \in 1..MaxLayers :
          \/ /\ path_exists = TRUE
             /\ extract_path \in {".", "out"}
             /\ fs \in CwdContents
             /\ \E kind \in [1..n -> 1..Len(LayerKinds)] :
                   img = ExtractImage(n, kind, 0, "app" :> ("latest" :> IdPool[n]))
          \/ /\ path_exists \in BOOLEAN
             /\ extract_path = "out"
             /\ fs = <<>>
             /\ \E missing \in 0..n :
                \E repos_info \in {"app" :> ("latest" :> IdPool[n]),
                                   "myrepo/app" :> ("latest" :> IdPool[n]),
                                   "app" :> ("1.0" :> IdPool[n])} :
                   img = ExtractImage(n, [i \in 1..n |-> 1], missing, repos_info)
    /\ old_layer_digest = ""
    /\ new_layer_digest = ""
    /\ Idle

\* if not os.path.exists(image_path): raise DockerscanNotExitsError
CheckExists ==
    /\ op = "extract_docker_image"
    /\ pc = "start"
    /\ IF path_exists
       THEN pc' = "open" /\ err' = err
       ELSE pc' = "failed" /\ err' = "DockerscanNotExitsError"
    /\ UNCHANGED <<op, img, image_path, image_repository, path_exists, top_layers,
                   manifest, cur, layers, extract_path, fs, todo, extracted,
                   old_layer_digest, new_layer_digest, new_manifest, out, idx, ret>>

\* if not os.path.isdir(extract_path): os.makedirs(extract_path)
MakeExtractPath ==
    /\ pc = "makedirs"
    /\ LET k == FsKey(extract_path)
       IN  IF k # "" /\ k \in DOMAIN fs /\ fs[k].kind = "file"
           THEN /\ pc' = "failed"
                /\ err' = "FileExistsError"
                /\ UNCHANGED <<fs, todo>>
           ELSE /\ fs' = MakeDirs(fs, k)
                /\ todo' = Reversed(layers)
                /\ pc' = "extract"
                /\ err' = err
    /\ UNCHANGED <<op, img, image_path, image_repository, path_exists, top_layers,
                   manifest, cur, layers, extract_path, extracted,
                   old_layer_digest, new_layer_digest, new_manifest, out, idx, ret>>

\* one iteration of: for layer_id in reversed(layers): extract_docker_layer(...)
ExtractLayer ==
    /\ pc = "extract"
    /\ todo # <<>>
    /\ LET r == ExtractDockerLayer(img, Head(todo), extract_path, fs)
       IN  /\ extracted' = Append(extracted, Head(todo))
           /\ fs' = r.fs
           /\ err' = r.err
           /\ todo' = Tail(todo)
           /\ pc' = IF r.err # NoErr THEN "failed"
                    ELSE IF Tail(todo) = <<>> THEN "done" ELSE "extract"
    /\ UNCHANGED <<op, img, image_path, image_repository, path_exists, top_layers,
                   manifest, cur, layers, extract_path,
                   old_layer_digest, new_layer_digest, new_manifest, out, idx, ret>>

NextExtract == CheckExists \/ Open \/ FindLayers \/ MakeExtractPath \/ ExtractLayer
SpecExtract == InitExtract /\ [][NextExtract]_vars

-----------------------------------------------------------------------------
(* build_manifest_with_new_layer and get_last_image_layer on their own *)

RECURSIVE SeqsUpTo(_, _)
SeqsUpTo(S, n) ==
    IF n = 0 THEN {<<>>}
    ELSE SeqsUpTo(S, n - 1) \cup {Append(q, x) : q \in SeqsUpTo(S, n - 1), x \in S}

\* manifests: any list of layer entries, an empty list, an element with no Layers
Manifests ==
    {<<[Config |-> ConfigName, Layers |-> l]>> :
        l \in SeqsUpTo({LayerTar(id) : id \in LayerIds}, MaxLayers)}
    \cup {<<>>, <<[Config |-> ConfigName]>>}

InitManifest ==
    /\ op \in {"build_manifest_with_new_layer", "get_last_image_layer"}
    /\ pc = IF op = "get_last_image_layer" THEN "get_last" ELSE "manifest"
    /\ image_path = "app:latest"
    /\ image_repository = ""
    /\ path_exists = TRUE
    /\ img = <<>>
    /\ extract_path = "."
    /\ fs = <<>>
    /\ manifest \in Manifests
    /\ old_layer_digest \in LayerIds \cup {AbsentId}
    /\ new_layer_digest \in NewDigests
    /\ err = NoErr
    /\ top_layers = ""
    /\ cur = ""
    /\ layers = <<>>
    /\ todo = <<>>
    /\ extracted = <<>>
    /\ new_manifest = <<>>
    /\ out = <<>>
    /\ idx = 0
    /\ ret = ""

\* new_manifest = build_manifest_with_new_layer(manifest, old, new)
BuildManifest ==
    /\ pc = "manifest"
    /\ LET r == BuildManifestWithNewLayer(manifest, old_layer_digest, new_layer_digest)
       IN  IF r.err # NoErr
           THEN /\ pc' = "failed"
                /\ err' = r.err
                /\ UNCHANGED <<manifest, new_manifest>>
           ELSE /\ manifest' = r.manifest
                /\ new_manifest' = r.manifest
                /\ err' = err
                /\ pc' = IF op = "rebuild" THEN "assemble" ELSE "done"
    /\ UNCHANGED <<op, img, image_path, image_repository, path_exists, top_layers,
                   cur, layers, extract_path, fs, todo, extracted,
                   old_layer_digest, new_layer_digest, out, idx, ret>>

\* ret = get_last_image_layer(manifest)
GetLast ==
    /\ pc = "get_last"
    /\ LET r == GetLastImageLayer(manifest)
       IN  /\ ret' = r.id
           /\ err' = r.err
           /\ pc' = IF r.err # NoErr THEN "failed" ELSE "done"
    /\ UNCHANGED <<op, img, image_path, image_repository, path_exists, top_layers,
                   manifest, cur, layers, extract_path, fs, todo, extracted,
                   old_layer_digest, new_layer_digest, new_manifest, out, idx>>

NextManifest == BuildManifest \/ GetLast
SpecManifest == InitManifest /\ [][NextManifest]_vars

-----------------------------------------------------------------------------
(* Replacing a layer: open_docker_image, build_manifest_with_new_layer,       *)
(* create_new_docker_image                                                     *)

RebuildImage(n, has_dir, has_version, index_first) ==
    LET ls == Concat([i \in 1..n |->
                         LayerMembers(IdPool[i], has_dir[i], has_version[i],
                                      JsonOf(IdPool[i], ParentOf(i)),
                                      TarOf(<<RegM("f", IdPool[i])>>))], 1)
        ix == IndexMembers(ChainIds(n), "app" :> ("latest" :> IdPool[n]))
    IN  IF index_first THEN ix \o ls ELSE ls \o ix

InitRebuild ==
    /\ op = "rebuild"
    /\ pc = "open"
    /\ image_path = "app:latest"
    /\ image_repository = ""
    /\ path_exists = TRUE
    /\ extract_path = "."
    /\ fs = <<>>
    /\ \E n \in 1..MaxLayers :
          /\ \E has_dir \in [1..n -> BOOLEAN], has_version \in [1..n -> BOOLEAN],
                index_first \in BOOLEAN :
                img = RebuildImage(n, has_dir, has_version, index_first)
          /\ old_layer_digest \in {IdPool[i] : i \in 1..n} \cup {AbsentId}
    /\ new_layer_digest \in NewDigests
    /\ Idle

\* one iteration of: for f in img.getmembers()
Assemble ==
    /\ pc = "assemble"
    /\ idx < Len(img)
    /\ LET r == AssembleMember(img[idx + 1], new_manifest, old_layer_digest,
                               new_layer_digest)
       IN  /\ out' = out \o r.add
           /\ err' = r.err
           /\ idx' = idx + 1
           /\ pc' = IF r.err # NoErr THEN "failed"
                    ELSE IF idx + 1 = Len(img) THEN "done" ELSE "assemble"
    /\ UNCHANGED <<op, img, image_path, image_repository, path_exists, top_layers,
                   manifest, cur, layers, extract_path, fs, todo, extracted,
                   old_layer_digest, new_layer_digest, new_manifest, ret>>

NextRebuild == Open \/ BuildManifest \/ Assemble
SpecRebuild == InitRebuild /\ [][NextRebuild]_vars

-----------------------------------------------------------------------------
(* Properties *)

\* the repositories index and the manifest stored in the archive read
ReposInfo == img[GetMember(img, "repositories")].data.index
StoredLayers == img[GetMember(img, "manifest.json")].data.doc[1]["Layers"]

\* C5: open_docker_image takes image and tag from the base name of the path (the
\* tag is "latest" when the base name has no colon) and yields index[image][tag]
\* when the index has it, else index[prefix/image][tag] when the index has that,
\* and otherwise fails and yields nothing.
C5_Resolution ==
    pc # "open" =>
        \A k \in 0..Len(image_path) :
            LET b == Slice(image_path, k, Len(image_path))
            IN  (~Contains(b, "/") /\ (k = 0 \/ Slice(image_path, k - 1, k) = "/")) =>
                \A c \in 0..Len(b) :
                    LET colon == Contains(b, ":")
                        image == IF colon THEN Slice(b, 0, c) ELSE b
                        tag   == IF colon THEN Slice(b, c + 1, Len(b)) ELSE "latest"
                        pre   == image_repository \o "/" \o image
                        direct == image \in DOMAIN ReposInfo /\ tag \in DOMAIN ReposInfo[image]
                        prefixed == pre \in DOMAIN ReposInfo /\ tag \in DOMAIN ReposInfo[pre]
                    IN  (IF colon THEN c < Len(b) /\ Slice(b, c, c + 1) = ":" /\ ~Contains(image, ":")
                         ELSE c = 0) =>
                        /\ direct => pc = "done" /\ top_layers = ReposInfo[image][tag]
                        /\ (~direct /\ prefixed) =>
                               pc = "done" /\ top_layers = ReposInfo[pre][tag]
                        /\ (~direct /\ ~prefixed) =>
                               pc = "failed" /\ err # NoErr /\ top_layers = ""

\* nginx:latest resolved through myrepo/nginx, the only entry of that image
C5_Witness ==
    /\ pc = "done"
    /\ image_path = "nginx"
    /\ image_repository = "myrepo"
    /\ "nginx" \notin DOMAIN ReposInfo
    /\ "myrepo/nginx" \in DOMAIN ReposInfo
    /\ top_layers = ReposInfo["myrepo/nginx"]["latest"]

\* the parsed json of layer id in the archive read, <<>> when the archive has
\* none or it is no JSON
StoredInfo(id) ==
    LET m == GetMember(img, id \o "/json")
    IN  IF m # 0 /\ img[m].type = "file" /\ img[m].data.kind = "json"
        THEN <<img[m].data.doc>> ELSE <<>>

\* the layers reached from the start of the walk by following parent pointers
ReachedFromStart ==
    LET R[k \in 0..(MaxLayers + 1)] ==
            IF k = 0 THEN {top_layers}
            ELSE R[k - 1] \cup {StoredInfo(x)[1]["parent"] :
                                   x \in {y \in R[k - 1] : /\ StoredInfo(y) # <<>>
                                                           /\ "parent" \in DOMAIN StoredInfo(y)[1]}}
    IN  R[MaxLayers + 1]

\* every layer reached from the start has metadata that parses
ValidChain == \A x \in ReachedFromStart : StoredInfo(x) # <<>>

ChainYielded ==
    /\ layers # <<>>
    /\ layers[1] = top_layers
    /\ \A i \in 1..(Len(layers) - 1) :
          /\ "parent" \in DOMAIN StoredInfo(layers[i])[1]
          /\ layers[i + 1] = StoredInfo(layers[i])[1]["parent"]
    /\ "parent" \notin DOMAIN StoredInfo(layers[Len(layers)])[1]
    /\ Len(layers) = Cardinality(ReachedFromStart)
    /\ \A i, j \in 1..Len(layers) : layers[i] = layers[j] => i = j

\* C6: on an archive whose layers reached from the start all have parsable
\* metadata, _find_layers terminates, and has then yielded the start, then each
\* layer's parent in turn, down to a layer with no parent: as many ids as there
\* are layers reached, none twice.
C6_WalkTerminatesOnBase ==
    /\ ValidChain => <>(pc = "done")
    /\ [](ValidChain => pc # "failed")
    /\ []((ValidChain /\ pc = "done") => ChainYielded)

\* a walk over three layers that has ended at the base layer
C6_Witness ==
    /\ op = "_find_layers"
    /\ pc = "done"
    /\ ValidChain
    /\ Len(layers) = 3

\* the members of the inner archive of a layer
StoredMembers(id) == img[GetMember(img, id \o "/layer.tar")].data.members

\* layer id writes path p
Writes(id, p) == \E i \in 1..Len(StoredMembers(id)) : StoredMembers(id)[i].path = p
WritesFile(id, p, c) ==
    \E i \in 1..Len(StoredMembers(id)) :
        StoredMembers(id)[i] = [path |-> p, kind |-> "file", content |-> c]

\* the whiteout marker of p: ".wh." + the base name of p, in p's directory
MarkerOf(p) ==
    IF Dirname(p) = "" THEN ".wh." \o p ELSE Dirname(p) \o "/.wh." \o Basename(p)

\* the paths the layers of the image write
StoredPaths ==
    UNION {{StoredMembers(layers[i])[j].path : j \in 1..Len(StoredMembers(layers[i]))} :
              i \in 1..Len(layers)}

\* where extraction puts path p
InDest(p) == IF extract_path = "." THEN p ELSE extract_path \o "/" \o p

C3_WhiteoutRemovesPath ==
    (op = "extract_docker_image" /\ pc = "done") =>
        \A p \in StoredPaths :
            \A i, j \in 1..Len(extracted) :
                ( /\ i < j
                  /\ Writes(extracted[i], p)
                  /\ Writes(extracted[j], MarkerOf(p))
                  /\ \A k \in j..Len(extracted) : ~Writes(extracted[k], p) )
                => InDest(p) \notin DOMAIN fs

\* the error kinds dockerscan defines
DockerscanErrors == {"DockerscanNotExitsError", "DockerscanError"}

\* C8: each failure category ends the operation with a dockerscan error kind:
\* a missing archive path with DockerscanNotExitsError, an image:tag the index
\* lacks even under the repository prefix with a dockerscan error, a manifest
\* without its keys or indices with DockerscanError, a layer whose json is
\* missing or does not parse with a dockerscan error.
C8_DistinguishedErrors ==
    pc = "failed" =>
        /\ (op = "extract_docker_image" /\ ~path_exists) =>
               err = "DockerscanNotExitsError"
        /\ (op \in {"extract_docker_image", "open_docker_image"} /\ path_exists
            /\ top_layers = "") =>
               err \in DockerscanErrors
        /\ (op = "get_last_image_layer" /\ ManifestLookupError(manifest) # NoErr) =>
               err = "DockerscanError"
        /\ (op \in {"extract_docker_image", "_find_layers"} /\ top_layers # ""
            /\ StoredInfo(cur) = <<>>) =>
               err \in DockerscanErrors

\* C4: build_manifest_with_new_layer returns the manifest it was given, as it
\* was before the call, with exactly one Layers entry changed: an entry the
\* replaced identifier occurs in, now "<new digest>/layer.tar"; when no entry
\* matches it returns the manifest unchanged and raises nothing.
C4_OneEntryReplaced ==
    [][(op = "build_manifest_with_new_layer" /\ pc = "manifest"
        /\ ManifestLookupError(manifest) = NoErr /\ pc' # "manifest") =>
          LET L == manifest[1]["Layers"]
              M == {i \in 1..Len(L) : Contains(L[i], old_layer_digest)}
          IN  /\ pc' = "done"
              /\ err' = NoErr
              /\ IF M = {} THEN new_manifest' = manifest
                 ELSE \E i \in M :
                         new_manifest' =
                             <<[Config |-> manifest[1]["Config"],
                                Layers |-> [k \in 1..Len(L) |->
                                               IF k = i
                                               THEN new_layer_digest \o "/layer.tar"
                                               ELSE L[k]]]>>
      ]_vars

\* a manifest of three entries returned with its second entry replaced
C4_Witness ==
    /\ op = "build_manifest_with_new_layer"
    /\ pc = "done"
    /\ Len(new_manifest[1]["Layers"]) = 3
    /\ new_manifest[1]["Layers"][2] = new_layer_digest \o "/layer.tar"
    /\ new_manifest[1]["Layers"][1] # new_layer_digest \o "/layer.tar"

\* the replaced layer is the topmost one: the last entry of the stored manifest
ReplacesTopmost ==
    StoredLayers[Len(StoredLayers)] = old_layer_digest \o "/layer.tar"

\* C1: when the topmost layer is replaced, the output archive's manifest.json
\* ends its Layers with "<new digest>/layer.tar" and the image config's
\* rootfs.diff_ids ends with "sha256:<new digest>".
C1_ManifestAndConfigPointAtNewLayer ==
    (op = "rebuild" /\ pc = "done" /\ ReplacesTopmost) =>
        /\ HasMember(out, "manifest.json")
        /\ LET m == out[GetMember(out, "manifest.json")].data.doc[1]
           IN  /\ m["Layers"][Len(m["Layers"])] = new_layer_digest \o "/layer.tar"
               /\ HasMember(out, m["Config"])
               /\ LET d == out[GetMember(out, m["Config"])].data.doc["rootfs"]["diff_ids"]
                  IN  d[Len(d)] = "sha256:" \o new_layer_digest

\* the topmost of three layers replaced, the archive assembled
C1_Witness ==
    /\ op = "rebuild"
    /\ pc = "done"
    /\ ReplacesTopmost
    /\ Len(StoredLayers) = 3
    /\ idx = Len(img)

\* C2: the archive assembled after replacing the topmost layer opens with
\* open_docker_image for the same image:tag, and the topmost layer its
\* repositories index resolves has its json and its layer.tar in the archive,
\* so that the chain walk starts from it without error.
C2_OutputOpens ==
    (op = "rebuild" /\ pc = "done" /\ ReplacesTopmost) =>
        LET r == OpenDockerImage(out, image_path, image_repository)
        IN  /\ r.err = NoErr
            /\ HasMember(out, r.top_layers \o "/json")
            /\ HasMember(out, r.top_layers \o "/layer.tar")
            /\ FindLayersFrame(out, r.top_layers).err = NoErr

\* sub[k..] occurs in s[from..], in order (the first fitting place is taken)
RECURSIVE OccursInOrder(_, _, _, _)
OccursInOrder(sub, k, s, from) ==
    IF k > Len(sub) THEN TRUE
    ELSE LET J == {j \in from..Len(s) : s[j] = sub[k]}
         IN  /\ J # {}
             /\ OccursInOrder(sub, k + 1, s, (CHOOSE j \in J : \A i \in J : j <= i) + 1)

\* C9: the members of the original archive that are not manifest.json, do not
\* hold the replaced identifier in their name and are no top-level .json file
\* are in the output archive with their name, metadata and content, in the
\* order they had in the original archive.
C9_OtherMembersCopiedInOrder ==
    (op = "rebuild" /\ pc = "done") =>
        LET Kept(f) == /\ f.name # "manifest.json"
                       /\ ~Contains(f.name, old_layer_digest)
                       /\ ~(Contains(f.name, ".json") /\ ~Contains(f.name, "/"))
        IN  OccursInOrder(SelectSeq(img, Kept), 1, out, 1)

\* the second of three layers replaced: the members of the other two layers and
\* the repositories index are copied
C9_Witness ==
    /\ op = "rebuild"
    /\ pc = "done"
    /\ Len(StoredLayers) = 3
    /\ old_layer_digest = "b2"
    /\ \E i, j, k \in 1..Len(out) :
          /\ i < j
          /\ out[i].name = "a1/layer.tar" /\ out[i].meta = "src"
          /\ out[j].name = "c3/json" /\ out[j].meta = "src"
          /\ out[k].name = "repositories" /\ out[k].meta = "src"

\* C10: when the original archive has <old>/json and <old>/layer.tar, with or
\* without a directory member <old>, the output archive has exactly one member
\* <new>/layer.tar, holding the new layer's archive, no member whose name holds
\* the old identifier, and the old layer's json and VERSION under <new>/.
C10_NewLayerPresentOnce ==
    (op = "rebuild" /\ pc = "done"
     /\ HasMember(img, old_layer_digest \o "/json")
     /\ HasMember(img, old_layer_digest \o "/layer.tar")) =>
        /\ Cardinality({i \in 1..Len(out) :
                           out[i].name = new_layer_digest \o "/layer.tar"}) = 1
        /\ \A i \in 1..Len(out) :
              out[i].name = new_layer_digest \o "/layer.tar" => out[i].data = NewLayerData
        /\ \A i \in 1..Len(out) : ~Contains(out[i].name, old_layer_digest)
        /\ HasMember(out, new_layer_digest \o "/json")
        /\ HasMember(img, old_layer_digest \o "/VERSION") =>
               HasMember(out, new_layer_digest \o "/VERSION")

====
